---- MODULE Spec2Model ----
(***************************************************************************)
(* The recommendation system of four cooperating services:                 *)
(*   - ModelTrainingService   (services/model-training-service, l.21-598)  *)
(*   - RecommendationAPI      (same file, l.599-974)                       *)
(*   - UserActivityService    (services/user-activity-service, l.1-187)    *)
(*   - RecommendationEngine   (same file, l.188-519)                       *)
(*   - EventBus               (same file, l.621-721) and shared/events.js  *)
(* Every service is one Node.js process: a handler runs without            *)
(* interruption up to its next await on real I/O (a store query, a bus     *)
(* publish, an HTTP call), so one action models one such stretch of code.  *)
(***************************************************************************)
EXTENDS Integers, Sequences, FiniteSets, TLC

VARIABLES
    \* ModelTrainingService (l.22-27) and its in-flight trainModelAsync
    isTraining, currentTrainingJob, trainingQueue, modelVersions,
    jobSeq, runs, trainEvents, lastStart,
    \* the versions trainModel has produced so far, kept for the properties
    trained,
    \* RecommendationEngine (l.209-214) and its in-flight updateModel calls
    currentModel, modelVersion, updates, updSeq, lastUpdate,
    \* the store: user_activities and recommendations tables
    activities, recommendations,
    \* in-flight generateRecommendations calls of the engine
    gens, genSeq, lastGen,
    \* the messages the bus holds for the API's subscribers
    channels,
    \* the Recommendation API: its cache and its getRecommendations calls
    cache, calls, callSeq, lastGet,
    \* trackUserActivity calls of the User Activity service
    tracks, trackSeq, lastTrack,
    \* services that completed start(), and the wall clock
    up, now

schedVars  == <<isTraining, currentTrainingJob, trainingQueue, modelVersions,
                jobSeq, runs, trainEvents, lastStart, trained>>
engineVars == <<currentModel, modelVersion, updates, updSeq, lastUpdate>>
storeVars  == <<activities, recommendations>>
genVars    == <<gens, genSeq, lastGen>>
busVars    == <<channels>>
apiVars    == <<cache, calls, callSeq, lastGet>>
trackVars  == <<tracks, trackSeq, lastTrack>>
envVars    == <<up, now>>
vars       == <<schedVars, engineVars, storeVars, genVars, busVars, apiVars,
                trackVars, envVars>>

(***************************************************************************)
(* Bounds of the model.                                                    *)
(***************************************************************************)
MaxJobs    == 4      \* job ids handed out by generateJobId
MaxTime    == 2      \* clock readings 1..MaxTime
MaxUpdates == 2      \* updateModel calls accepted by the engine
MaxGens    == 2      \* generateRecommendations calls accepted by the engine
MaxCalls   == 2      \* getRecommendations calls accepted by the API
MaxTracks  == 1      \* activities tracked
MaxInFlight == 1     \* getRecommendations calls the API has in flight at once

(***************************************************************************)
(* JavaScript values.  A value is [t, s, n, m]: its type tag, its text     *)
(* (strings, or the name of an object literal), and two numbers.  The      *)
(* template string `v${n}.${m}` is the string "v" with numbers n and m.    *)
(***************************************************************************)
Undefined        == [t |-> "undefined", s |-> "", n |-> 0, m |-> 0]
Null             == [t |-> "null", s |-> "", n |-> 0, m |-> 0]
Str(x)           == [t |-> "string", s |-> x, n |-> 0, m |-> 0]
Num(k)           == [t |-> "number", s |-> "", n |-> k, m |-> 0]
Obj(tag)         == [t |-> "object", s |-> tag, n |-> 0, m |-> 0]
VersionStr(a, b) == [t |-> "string", s |-> "v", n |-> a, m |-> b]

\* ToBoolean, as `!x` and `a || b` use it
Truthy(x) ==
    CASE x.t = "undefined" -> FALSE
      [] x.t = "null"      -> FALSE
      [] x.t = "string"    -> x.s # ""
      [] x.t = "number"    -> x.n # 0
      [] OTHER             -> TRUE

\* the typeof operator
TypeOf(x) == IF x.t = "null" THEN "object" ELSE x.t

\* a || b
OrElse(a, b) == IF Truthy(a) THEN a ELSE b

(***************************************************************************)
(* Events and the bus.  An event built by EventFactory is an Event         *)
(* instance (inst = TRUE) and has toJSON; an object literal has not.       *)
(***************************************************************************)
EventOf(type, inst, userId, ref) ==
    [type |-> type, inst |-> inst, userId |-> userId, ref |-> ref]

\* EventBus.publish: TRUE when the call throws.  `connected` is the bus
\* object's flag, `transportOk` whether the Redis PUBLISH succeeds.
PublishThrows(connected, event, transportOk) ==
    \/ ~connected                \* l.650
    \/ ~event.inst               \* l.656: event.toJSON is not a function
    \/ ~transportOk              \* l.658

\* TRUE when publish throws before it starts any I/O
PublishThrowsEarly(connected, event) == ~connected \/ ~event.inst

\* the bus object of a service is connected once its start() has run
Connected(service) == service \in up

(***************************************************************************)
(* The bus as the Recommendation API sees it: one subscriber connection    *)
(* per event type (EventBus.subscribe l.666-696), each delivering in       *)
(* order.  A message is held only while the API is subscribed.             *)
(***************************************************************************)
EventTypes == {"UserViewedProduct", "UserAddedToCart", "UserPurchasedProduct",
               "UserSearchedProducts", "RecommendationGenerated",
               "RecommendationModelUpdated"}

\* the message published on the bus reaches the channel of its type
Published(ch, event) ==
    IF "api" \in up /\ event.type \in EventTypes
    THEN [ch EXCEPT ![event.type] = Append(@, event)]
    ELSE ch

(***************************************************************************)
(* ModelTrainingService                                                    *)
(***************************************************************************)
\* the configs a caller submits: {} (also for a missing config, l.30),
\* {weights, timeDecay}, null, and the timer's literal (l.574-577)
Configs == {"empty", "custom", "null"}
HourlyConfig == "hourly"

NoJob == [id |-> 0, config |-> "", status |-> "", error |-> ""]
Job(id, config, status) == [id |-> id, config |-> config, status |-> status, error |-> ""]

NoRet == [n |-> 0, success |-> FALSE, jobId |-> 0, status |-> "", error |-> ""]

\* the scheduler's fields as one value, for the synchronous code below
Sched == [isTraining |-> isTraining, job |-> currentTrainingJob,
          queue |-> trainingQueue, seq |-> jobSeq, runs |-> runs,
          events |-> trainEvents, trained |-> trained, ret |-> NoRet]

\* fault injection: a scheduler that never queues a submission
NeverQueue(training) == FALSE

\* l.32: a submission is queued while a job is being trained
MustQueue(training) == training

\* l.55-63: the start notification is an object literal
StartEvent(jobId) == EventOf("ModelTrainingStarted", FALSE, "", jobId)

\* l.126-134: so is the failure notification
ErrorEvent(jobId) == EventOf("ModelTrainingFailed", FALSE, "", jobId)

\* l.106-110: the completion notification comes from EventFactory
CompleteEvent(version) == EventOf("RecommendationModelUpdated", TRUE, "", version.n)

\* l.79 trainModelAsync entered for a job: no model yet
NewRun(jobId, config) ==
    [jobId |-> jobId, config |-> config, pc |-> "collect",
     version |-> VersionStr(0, 0), similarity |-> <<>>, valid |-> FALSE]

\* l.30-77 startModelTraining; the value returned is left in .ret.  The
\* publish of l.65 either throws at once or, if it is accepted, line 70
\* enters trainModelAsync.
startModelTraining(s, config, transportOk) ==
    LET jobId == s.seq + 1
        s1    == [s EXCEPT !.seq = jobId]
    IN  IF MustQueue(s1.isTraining)
        THEN [s1 EXCEPT
                !.queue = Append(@, Job(jobId, config, "queued")),
                !.ret = [n |-> 0, success |-> TRUE, jobId |-> jobId,
                         status |-> "queued", error |-> ""]]
        ELSE LET s2 == [s1 EXCEPT !.job = Job(jobId, config, "started"),
                                  !.isTraining = TRUE]
             IN  IF PublishThrows(Connected("training"), StartEvent(jobId), transportOk)
                 THEN [s2 EXCEPT
                         !.ret = [n |-> 0, success |-> FALSE, jobId |-> 0,
                                  status |-> "", error |-> "publish"]]
                 ELSE [s2 EXCEPT
                         !.events = @ \cup {StartEvent(jobId)},
                         !.runs = @ \cup {NewRun(jobId, config)},
                         !.ret = [n |-> 0, success |-> TRUE, jobId |-> jobId,
                                  status |-> "started", error |-> ""]]

\* fault injection: a scheduler that takes the newest queued job
processLastInQueue(s, transportOk) ==
    LET s1 == [s EXCEPT !.isTraining = FALSE, !.job = NoJob]
    IN  IF Len(s1.queue) > 0
        THEN startModelTraining([s1 EXCEPT !.queue = SubSeq(@, 1, Len(@) - 1)],
                                s1.queue[Len(s1.queue)].config, transportOk)
        ELSE s1

\* fault injection: a scheduler that goes idle without looking at the queue
processWithoutQueue(s, transportOk) ==
    [s EXCEPT !.isTraining = FALSE, !.job = NoJob]

\* l.487-495 processNextInQueue
processNextInQueue(s, transportOk) ==
    LET s1 == [s EXCEPT !.isTraining = FALSE, !.job = NoJob]
    IN  IF Len(s1.queue) > 0
        THEN startModelTraining([s1 EXCEPT !.queue = Tail(@)],
                                Head(s1.queue).config, transportOk)
        ELSE s1

\* l.119-139, the catch block of trainModelAsync for run r
trainingFailed(s, r, transportOk, message) ==
    LET s1 == [s EXCEPT !.job = [@ EXCEPT !.status = "failed", !.error = message],
                        !.runs = @ \ {r}]
    IN  IF PublishThrows(Connected("training"), ErrorEvent(r.jobId), transportOk)
        THEN s1                         \* l.136 throws: l.138 is not reached
        ELSE processNextInQueue([s1 EXCEPT !.events = @ \cup {ErrorEvent(r.jobId)}],
                                transportOk)

\* the scheduler's fields after the synchronous code left them as s
SetSched(s) ==
    /\ isTraining' = s.isTraining
    /\ currentTrainingJob' = s.job
    /\ trainingQueue' = s.queue
    /\ jobSeq' = s.seq
    /\ runs' = s.runs
    /\ trainEvents' = s.events
    /\ trained' = s.trained

\* l.566-588 start(): the bus is connected, the timer armed, the port open
TrainingStart ==
    /\ "training" \notin up
    /\ up' = up \cup {"training"}
    /\ UNCHANGED <<schedVars, engineVars, storeVars, genVars, busVars, apiVars, trackVars, now>>

\* l.540-544 POST /train
PostTrain ==
    \E config \in Configs, transportOk \in BOOLEAN :
        /\ "training" \in up
        /\ jobSeq < MaxJobs
        /\ LET s == startModelTraining(Sched, config, transportOk)
           IN  /\ SetSched(s)
               /\ lastStart' = [s.ret EXCEPT !.n = lastStart.n + 1]
        /\ UNCHANGED <<modelVersions, engineVars, storeVars, genVars, busVars, apiVars, trackVars, envVars>>

\* fault injection: a timer that submits on every tick
TimerAlwaysSubmits(training, queue) == TRUE

\* l.572 the test the timer callback makes before it submits
TimerSubmits(training, queue) == ~training /\ Len(queue) = 0

\* l.571-579 the hourly timer
HourlyTimer ==
    \E transportOk \in BOOLEAN :
        /\ "training" \in up
        /\ jobSeq < MaxJobs
        /\ TimerSubmits(isTraining, trainingQueue)
        /\ LET s == startModelTraining(Sched, HourlyConfig, transportOk)
           IN  /\ SetSched(s)
               /\ lastStart' = [s.ret EXCEPT !.n = lastStart.n + 1]
        /\ UNCHANGED <<modelVersions, engineVars, storeVars, genVars, busVars, apiVars, trackVars, envVars>>

(***************************************************************************)
(* RecommendationEngine: the model registry                                *)
(***************************************************************************)
NoModel == [version |-> Null, type |-> Null, weights |-> Null,
            timeDecay |-> Null, minInteractions |-> Null]

\* l.218-229 the model initializeModel registers (timeDecay in tenths)
InitialModel(version) ==
    [version |-> version, type |-> Str("collaborative_filtering"),
     weights |-> Obj("initial"), timeDecay |-> Num(9), minInteractions |-> Num(3)]

\* the bodies POST /model/update is called with
VersionValues == {Undefined, Str(""), Num(2), VersionStr(2, 0), VersionStr(3, 0)}
WeightValues  == {Undefined, Obj("trained"), Obj("unkeyed"), Str("heavy")}
Payloads ==
    [version : VersionValues, type : {Undefined}, weights : WeightValues,
     timeDecay : {Undefined}, minInteractions : {Undefined, Num(1)}]

\* bodies that carry a version string and a weights object
WellFormedPayloads ==
    {d \in Payloads : /\ d.version \in {VersionStr(2, 0), VersionStr(3, 0)}
                      /\ d.weights = Obj("trained")
                      /\ d.minInteractions = Undefined}

\* l.239-245: reading a field of currentModel throws when it is null
NewModelThrows(d, cur) ==
    /\ cur = NoModel
    /\ \/ ~Truthy(d.type) \/ ~Truthy(d.weights)
       \/ ~Truthy(d.timeDecay) \/ ~Truthy(d.minInteractions)

\* l.239-245 the candidate built from the request body
NewModel(d, cur) ==
    [version         |-> d.version,
     type            |-> OrElse(d.type, cur.type),
     weights         |-> OrElse(d.weights, cur.weights),
     timeDecay       |-> OrElse(d.timeDecay, cur.timeDecay),
     minInteractions |-> OrElse(d.minInteractions, cur.minInteractions)]

\* fault injection: a validation that does not look at the version
validateWeightsOnly(model) ==
    IF ~Truthy(model.weights) \/ TypeOf(model.weights) # "object"
    THEN "Invalid model weights"
    ELSE ""

\* l.271-279 validateModel: the message of the error thrown, "" for none
validateModel(model) ==
    IF ~Truthy(model.weights) \/ TypeOf(model.weights) # "object"
    THEN "Invalid model weights"
    ELSE IF ~Truthy(model.version) \/ TypeOf(model.version) # "string"
    THEN "Invalid model version"
    ELSE ""

\* fault injection: a swap that resets the model when the version pushed
\* is the one already in force
ToggledModel(cur, new) ==
    IF cur.version = new.version THEN InitialModel(new.version) ELSE new

\* l.251 this.currentModel = newModel
SwappedModel(cur, new) == new

\* fault injection: a swap that leaves this.modelVersion as it was
KeptVersion(cur, new) == cur.version

\* l.252 this.modelVersion = newModel.version
SwappedVersion(cur, new) == new.version

\* l.235-252 updateModel up to the publish: the registry afterwards and
\* the message of the error caught at l.265, "" for none
updateModelSync(cur, ver, d) ==
    IF NewModelThrows(d, cur)
    THEN [model |-> cur, version |-> ver, error |-> "TypeError"]
    ELSE LET new == NewModel(d, cur)
             msg == validateModel(new)
         IN  IF msg # ""
             THEN [model |-> cur, version |-> ver, error |-> msg]
             ELSE [model |-> SwappedModel(cur, new),
                   version |-> SwappedVersion(cur, new), error |-> ""]

\* l.255-259
ModelUpdatedEvent(version) == EventOf("RecommendationModelUpdated", TRUE, "", version.n)

NoUpdate == [n |-> 0, d |-> NoModel, success |-> FALSE, error |-> "",
             version |-> Null]

\* updateModel called with body d by caller (0: an HTTP client, otherwise
\* the job id of the training run that pushes its model)
updateModelCall(d, caller) ==
    LET r == updateModelSync(currentModel, modelVersion, d)
        early == PublishThrowsEarly(Connected("engine"), ModelUpdatedEvent(r.version))
    IN  /\ currentModel' = r.model
        /\ modelVersion' = r.version
        /\ updSeq' = updSeq + 1
        /\ IF r.error # "" \/ early
           THEN /\ lastUpdate' = [n |-> updSeq + 1, d |-> d, success |-> FALSE,
                                  error |-> IF r.error # "" THEN r.error ELSE "publish",
                                  version |-> Null]
                /\ UNCHANGED updates
           ELSE /\ updates' = updates \cup {[n |-> updSeq + 1, d |-> d, caller |-> caller]}
                /\ UNCHANGED lastUpdate

\* l.487-509 start() of the engine: bus connected, model initialised
EngineStart ==
    /\ "engine" \notin up
    /\ up' = up \cup {"engine"}
    /\ currentModel' = InitialModel(modelVersion)
    /\ UNCHANGED <<schedVars, modelVersion, updates, updSeq, lastUpdate, storeVars, genVars, busVars, apiVars, trackVars, now>>

\* l.466-469 POST /model/update with a body from D
ModelUpdate(D) ==
    \E d \in D :
        /\ "engine" \in up
        /\ updSeq < MaxUpdates
        /\ updateModelCall(d, 0)
        /\ UNCHANGED <<schedVars, storeVars, genVars, busVars, apiVars, trackVars, envVars>>

\* the request sent by any HTTP client
PostModelUpdate == ModelUpdate(Payloads)

\* the request sent with a well-formed model
PostNewModel == ModelUpdate(WellFormedPayloads)

\* the request sent with the model of a finished training run
PostTrainedModel ==
    ModelUpdate({d \in WellFormedPayloads : d.version = VersionStr(2, 0)})

\* l.261-268 the publish of updateModel completes and the call returns
ModelUpdateReturns ==
    \E u \in updates, transportOk \in BOOLEAN :
        /\ updates' = updates \ {u}
        /\ lastUpdate' = [n |-> u.n, d |-> u.d, success |-> transportOk,
                          error |-> IF transportOk THEN "" ELSE "publish",
                          version |-> IF transportOk THEN modelVersion ELSE Null]
        /\ channels' = IF transportOk
                       THEN Published(channels, ModelUpdatedEvent(u.d.version))
                       ELSE channels
        /\ UNCHANGED <<schedVars, currentModel, modelVersion, updSeq, storeVars, genVars, apiVars, trackVars, envVars>>

(***************************************************************************)
(* The store (unnamed/part_000 seeds it; config/database l.556-580).       *)
(* An activity row is [user, product, kind, age]; age is the place of its  *)
(* timestamp in the windows the queries use: "week" (under 7 days),        *)
(* "month" (7 to 30 days) or "old".  NoProduct is a NULL product_id.       *)
(***************************************************************************)
Users     == {"u1", "u2", "u3"}
Products  == <<"p1", "p2", "p3", "p4">>
NoProduct == "none"
Kinds     == {"view", "add_to_cart", "purchase", "search"}
Limits    == {1, 2}

Activity(u, p, k, age) == [user |-> u, product |-> p, kind |-> k, age |-> age]

\* a store the services are started on, the demo rows of l.54-83 cut down
\* to three users and four products: u1 has three activities, u2 shares
\* two of u1's products, u3 is a new user with one view
SeedActivities ==
    << Activity("u1", "p1", "view", "week"),
       Activity("u1", "p1", "add_to_cart", "week"),
       Activity("u1", "p2", "view", "week"),
       Activity("u2", "p1", "view", "week"),
       Activity("u2", "p2", "purchase", "month"),
       Activity("u2", "p3", "view", "week"),
       Activity("u2", "p4", "purchase", "week"),
       Activity("u3", "p1", "view", "week") >>

\* place of a product id in the order ties are listed in
ProductIndex(p) ==
    IF p = NoProduct THEN 0 ELSE CHOOSE i \in 1..Len(Products) : Products[i] = p

RECURSIVE GCD(_, _)
GCD(a, b) == IF b = 0 THEN a ELSE GCD(b, a % b)

\* the number a / b, in lowest terms
Rat(a, b) == LET g == GCD(a, b) IN [num |-> a \div g, den |-> b \div g]
RatLess(x, y) == x.num * y.den < y.num * x.den

\* a value written to a DECIMAL(5,4) column: rounded to four decimals
Decimal4(x) == Rat((2 * 10000 * x.num + x.den) \div (2 * x.den), 10000)

\* CASE WHEN activity_type ... END of l.372-374 and l.399-401
KindScore(k) ==
    CASE k = "purchase"    -> 5
      [] k = "add_to_cart" -> 3
      [] k = "view"        -> 1
      [] OTHER             -> 0

RECURSIVE SumKindScore(_, _)
SumKindScore(acts, I) ==
    IF I = {} THEN 0
    ELSE LET i == CHOOSE j \in I : TRUE
         IN  KindScore(acts[i].kind) + SumKindScore(acts, I \ {i})

\* one row of a GROUP BY product_id: COUNT(*) and AVG(CASE ...)
ProductGroup(acts, I, p) ==
    LET rows == {i \in I : acts[i].product = p}
    IN  [productId |-> p, count |-> Cardinality(rows),
         score |-> Rat(SumKindScore(acts, rows), Cardinality(rows))]

\* ORDER BY score DESC, <count> DESC; equal rows in product order
RanksBefore(a, b) ==
    \/ RatLess(b.score, a.score)
    \/ /\ a.score = b.score
       /\ \/ a.count > b.count
          \/ a.count = b.count /\ ProductIndex(a.productId) < ProductIndex(b.productId)

RECURSIVE Ranked(_)
Ranked(G) ==
    IF G = {} THEN <<>>
    ELSE LET first == CHOOSE a \in G : \A b \in G \ {a} : RanksBefore(a, b)
         IN  <<first>> \o Ranked(G \ {first})

\* LIMIT n
Take(seq, n) == SubSeq(seq, 1, IF n < Len(seq) THEN n ELSE Len(seq))

Rec(p, score, confidence, reason) ==
    [productId |-> p, score |-> score, confidence |-> confidence, reason |-> reason]

\* l.330-341 getUserBehavior: the user's rows (at most BehaviorLimit)
BehaviorLimit == 100
getUserBehavior(acts, u) == {i \in 1..Len(acts) : acts[i].user = u}
BehaviorLength(acts, u) ==
    LET k == Cardinality(getUserBehavior(acts, u))
    IN  IF k < BehaviorLimit THEN k ELSE BehaviorLimit

\* l.345 the product ids of the user's behaviour
UserProducts(acts, u) == {acts[i].product : i \in getUserBehavior(acts, u)}

\* l.347-360 findSimilarUsers: product_id = ANY($1) never matches NULL
SimilarMinCommon == 2
findSimilarUsers(acts, u, products) ==
    LET rows(v) == {i \in 1..Len(acts) :
                        /\ acts[i].user = v
                        /\ acts[i].product # NoProduct
                        /\ acts[i].product \in products
                        /\ acts[i].age \in {"week", "month"}}
    IN  {v \in Users \ {u} : Cardinality(rows(v)) >= SimilarMinCommon}

\* confidence in thousandths: Math.min(frequency / similarUsers.length, 1.0)
Confidence(frequency, n) ==
    IF frequency >= n THEN 1000 ELSE (1000 * frequency) \div n

\* l.396-417 getPopularProducts (confidence 0.5)
getPopularProducts(acts, limit) ==
    LET I == {i \in 1..Len(acts) : acts[i].age = "week"}
        G == {ProductGroup(acts, I, p) : p \in {acts[i].product : i \in I}}
        rows == Take(Ranked(G), limit)
    IN  [k \in 1..Len(rows) |->
            Rec(rows[k].productId, rows[k].score, 500, "popular_products")]

\* l.363-394 generateCollaborativeRecommendations for a non-empty set of
\* similar users: x NOT IN (subquery) is never true when the subquery
\* returns a NULL or x is NULL
collaborativeRecommendations(acts, u, similar, limit) ==
    LET touched == {acts[i].product : i \in {j \in 1..Len(acts) : acts[j].user = u}}
        I == {i \in 1..Len(acts) :
                 /\ acts[i].user \in similar
                 /\ NoProduct \notin touched
                 /\ acts[i].product # NoProduct
                 /\ acts[i].product \notin touched}
        G == {ProductGroup(acts, I, p) : p \in {acts[i].product : i \in I}}
        rows == Take(Ranked(G), limit)
    IN  [k \in 1..Len(rows) |->
            Rec(rows[k].productId, rows[k].score,
                Confidence(rows[k].count, Cardinality(similar)),
                "collaborative_filtering")]

\* a row of the recommendations table (l.424-435)
RecRow(u, rec, version) ==
    [user |-> u, product |-> rec.productId, score |-> Decimal4(rec.score),
     version |-> version]

\* l.421 DELETE FROM recommendations WHERE user_id = $1
RECURSIVE DeleteUser(_, _)
DeleteUser(rows, u) ==
    IF rows = <<>> THEN <<>>
    ELSE IF Head(rows).user = u THEN DeleteUser(Tail(rows), u)
    ELSE <<Head(rows)>> \o DeleteUser(Tail(rows), u)

(***************************************************************************)
(* The trainer (model-training-service l.141-383).  A product id of the    *)
(* store is 'product-<n>' (init-db.sql l.71-81): "p1" stands for           *)
(* 'product-1'.  A string is kept as the sequence of its pieces between    *)
(* hyphens, so that join('-') and split('-') are what they are in the code.*)
(***************************************************************************)
\* String.prototype.split('-') of a product id
Segments(p) ==
    CASE p = "p1" -> <<"product", "1">>
      [] p = "p2" -> <<"product", "2">>
      [] p = "p3" -> <<"product", "3">>
      [] p = "p4" -> <<"product", "4">>

\* place of a user id in ORDER BY ua.user_id
UserIndex(u) == CASE u = "u1" -> 1 [] u = "u2" -> 2 [] u = "u3" -> 3

\* place of a timestamp in ORDER BY ua.timestamp: older rows first, rows
\* of one window in the order they were inserted
AgeIndex(age) == CASE age = "old" -> 1 [] age = "month" -> 2 [] age = "week" -> 3

RowBefore(acts, i, j) ==
    \/ UserIndex(acts[i].user) < UserIndex(acts[j].user)
    \/ /\ acts[i].user = acts[j].user
       /\ \/ AgeIndex(acts[i].age) < AgeIndex(acts[j].age)
          \/ acts[i].age = acts[j].age /\ i < j

RECURSIVE OrderedRows(_, _)
OrderedRows(acts, I) ==
    IF I = {} THEN <<>>
    ELSE LET first == CHOOSE i \in I : \A j \in I \ {i} : RowBefore(acts, i, j)
         IN  <<acts[first]>> \o OrderedRows(acts, I \ {first})

\* l.142-163 collectTrainingData: the rows of the last 30 days that JOIN a
\* product, ORDER BY user_id, timestamp
TrainingRows(acts) ==
    OrderedRows(acts, {i \in 1..Len(acts) : /\ acts[i].product # NoProduct
                                           /\ acts[i].age \in {"week", "month"}})

\* l.326 [a, b].sort().join('-'): the key of a pair in coOccurrences
PairKey(a, b) ==
    IF ProductIndex(a) <= ProductIndex(b)
    THEN Segments(a) \o Segments(b)
    ELSE Segments(b) \o Segments(a)

\* l.318-328 the (interaction, otherInteraction) combinations that
\* increment a counter: both orders of two rows of one user on different
\* products
Combinations(rows) ==
    {c \in (1..Len(rows)) \X (1..Len(rows)) :
        /\ rows[c[1]].user = rows[c[2]].user
        /\ rows[c[1]].product # rows[c[2]].product}

CombinationKey(rows, c) == PairKey(rows[c[1]].product, rows[c[2]].product)

\* l.316-329 coOccurrences: the count of every key (l.327)
coOccurrences(rows) ==
    [key \in {CombinationKey(rows, c) : c \in Combinations(rows)} |->
        Cardinality({c \in Combinations(rows) : CombinationKey(rows, c) = key})]

\* the place of a key in the iteration order of the Map: that of the first
\* combination that set it
FirstSet(rows, key) ==
    LET n == Len(rows)
        C == {c \in Combinations(rows) : CombinationKey(rows, c) = key}
        first == CHOOSE c \in C : \A d \in C : c[1] * n + c[2] <= d[1] * n + d[2]
    IN  first[1] * n + first[2]

\* l.333 the minimal similarity threshold
Retained(count) == count > 2

\* l.334-335 pair.split('-') and `${product1}-${product2}`: the key of an
\* entry in the similarity map
SimilarityKey(key) == <<key[1], key[2]>>

\* l.335 count / Math.max(coOccurrences.size, 1)
Strength(count, co) ==
    LET size == Cardinality(DOMAIN co)
    IN  Rat(count, IF size > 1 THEN size ELSE 1)

\* l.311-340 calculateSimilarityMatrix: an entry set twice keeps the value
\* set last
calculateSimilarityMatrix(rows) ==
    LET co   == coOccurrences(rows)
        kept == {k \in DOMAIN co : Retained(co[k])}
    IN  [sk \in {SimilarityKey(k) : k \in kept} |->
            LET K    == {k \in kept : SimilarityKey(k) = sk}
                last == CHOOSE k \in K :
                            \A j \in K : FirstSet(rows, j) <= FirstSet(rows, k)
            IN  Strength(co[last], co)]

\* l.383-399 predictRecommendations holds the product of a test purchase:
\* the user has a view (l.391) and the product's category is one of the
\* user's (at most 5 categories and 10 products in this store)
IsRecommended(rows, row) ==
    \E i \in 1..Len(rows) : rows[i].user = row.user /\ rows[i].kind = "view"

\* l.343-381 validateModel: valid is precision > 0.1 over the purchases
\* among the first fifth of the rows
validateTrained(rows) ==
    LET testSize == Len(rows) \div 5
        tests    == {i \in 1..testSize : rows[i].kind = "purchase"}
        hits     == {i \in tests : IsRecommended(rows, rows[i])}
    IN  /\ tests # {}
        /\ 10 * Cardinality(hits) > Cardinality(tests)

\* fault injection: a run that stops when its model is reported invalid
RejectionBlocks(valid) == ~valid

\* l.93-97: validationResults.valid is not read before saveModel
ValidationBlocks(valid) == FALSE

(***************************************************************************)
(* trainModelAsync (l.79-140): one action per awaited I/O                  *)
(***************************************************************************)
\* l.505-509 generateModelVersion
generateModelVersion(versions, clock) == VersionStr(Cardinality(versions) + 1, clock)

\* l.243 trainModel reads config.weights: a null config throws
TrainModelThrows(config) == config = "null"

\* l.464-474 the body deployModel posts for the current job
DeployPayload(version, job) ==
    [version |-> version, type |-> Str("collaborative_filtering"),
     weights |-> IF job.config = "custom" THEN Obj("custom") ELSE Obj("trained"),
     timeDecay |-> Num(9), minInteractions |-> Num(3)]

ReplaceRun(s, r, r2) == [s EXCEPT !.runs = (@ \ {r}) \cup {r2}]

\* l.84-97: the training rows arrive (or the query fails); preprocessData,
\* trainModel and validateModel run, and saveModel sends its INSERT
CollectTrainingData ==
    \E r \in runs, dbOk \in BOOLEAN, transportOk \in BOOLEAN :
        /\ r.pc = "collect"
        /\ LET rows    == TrainingRows(activities)
               version == generateModelVersion(modelVersions, now)
               valid   == validateTrained(rows)
           IN  SetSched(IF dbOk /\ ~TrainModelThrows(r.config) /\ ~ValidationBlocks(valid)
                        THEN [ReplaceRun(Sched, r,
                                [r EXCEPT !.pc = "save",
                                          !.version = version,
                                          !.similarity = calculateSimilarityMatrix(rows),
                                          !.valid = valid])
                              EXCEPT !.trained = @ \cup {version}]
                        ELSE trainingFailed(Sched, r, transportOk,
                                 IF ~dbOk THEN "query failed"
                                 ELSE IF TrainModelThrows(r.config) THEN "TypeError"
                                 ELSE "model rejected"))
        /\ UNCHANGED <<modelVersions, lastStart, engineVars, storeVars, genVars, busVars, apiVars, trackVars, envVars>>

\* l.437-455: the INSERT returns, the version is recorded, l.476 posts it
SaveModel ==
    \E r \in runs, dbOk \in BOOLEAN, transportOk \in BOOLEAN :
        /\ r.pc = "save"
        /\ IF dbOk
           THEN /\ modelVersions' = modelVersions \cup {r.version}
                /\ SetSched(ReplaceRun(Sched, r, [r EXCEPT !.pc = "deploy"]))
           ELSE /\ SetSched(trainingFailed(Sched, r, transportOk, "insert failed"))
                /\ UNCHANGED modelVersions
        /\ UNCHANGED <<lastStart, engineVars, storeVars, genVars, busVars, apiVars, trackVars, envVars>>

\* the engine receives the pushed model and runs updateModel on it
EngineReceivesPush ==
    \E r \in runs :
        /\ r.pc = "deploy"
        /\ "engine" \in up
        /\ updateModelCall(DeployPayload(r.version, currentTrainingJob), r.jobId)
        /\ SetSched(ReplaceRun(Sched, r, [r EXCEPT !.pc = "pushed"]))
        /\ UNCHANGED <<modelVersions, lastStart, storeVars, genVars, busVars, apiVars, trackVars, envVars>>

\* l.100-112 after deployModel returned: the job is marked completed and
\* the completion notification is sent
afterDeploy(s, r, transportOk) ==
    LET s1 == [s EXCEPT !.job = [@ EXCEPT !.status = "completed"]]
    IN  IF PublishThrowsEarly(Connected("training"), CompleteEvent(r.version))
        THEN trainingFailed(s1, r, transportOk, "publish failed")
        ELSE ReplaceRun(s1, r, [r EXCEPT !.pc = "publish"])

\* l.476-479: the engine's response arrives
DeployReturns ==
    \E r \in runs, transportOk \in BOOLEAN :
        /\ r.pc = "pushed"
        /\ \A u \in updates : u.caller # r.jobId
        /\ SetSched(afterDeploy(Sched, r, transportOk))
        /\ UNCHANGED <<modelVersions, lastStart, engineVars, storeVars, genVars, busVars, apiVars, trackVars, envVars>>

\* l.480-483: the POST fails and deployModel swallows the error
DeployFails ==
    \E r \in runs, transportOk \in BOOLEAN :
        /\ r.pc = "deploy"
        /\ SetSched(afterDeploy(Sched, r, transportOk))
        /\ UNCHANGED <<modelVersions, lastStart, engineVars, storeVars, genVars, busVars, apiVars, trackVars, envVars>>

\* l.112-117: the completion notification is published, or l.119-139
PublishCompleted ==
    \E r \in runs, transportOk \in BOOLEAN :
        /\ r.pc = "publish"
        /\ SetSched(IF transportOk
                    THEN processNextInQueue(
                            [Sched EXCEPT !.runs = @ \ {r},
                                          !.events = @ \cup {CompleteEvent(r.version)}],
                            transportOk)
                    ELSE trainingFailed(Sched, r, transportOk, "publish failed"))
        /\ UNCHANGED <<modelVersions, lastStart, engineVars, storeVars, genVars, busVars, apiVars, trackVars, envVars>>

(***************************************************************************)
(* generateRecommendations (engine l.282-328): one action per awaited I/O  *)
(***************************************************************************)
NoGenRet == [n |-> 0, user |-> "", success |-> FALSE, kind |-> "",
             recs |-> <<>>, rowVers |-> {}, evVer |-> Null, retVer |-> Null]

NewGen(id, u, limit, caller) ==
    [id |-> id, user |-> u, limit |-> limit, caller |-> caller, pc |-> "behavior",
     products |-> {}, similar |-> {}, recs |-> <<>>, i |-> 0, ver |-> Null,
     rowVers |-> {}, evVer |-> Null, success |-> FALSE, kind |-> ""]

\* l.309-313: the event carries this.modelVersion as read when it is built
GeneratedEvent(u, model) == EventOf("RecommendationGenerated", TRUE, u, model.n)

\* the call of g returns: a call made by the API stays until the API has
\* read the response
GenReturns(g, g2, ret) ==
    /\ gens' = IF g.caller = 0 THEN gens \ {g}
               ELSE (gens \ {g}) \cup {[g2 EXCEPT !.pc = "done",
                                                  !.success = ret.success,
                                                  !.kind = ret.kind,
                                                  !.recs = ret.recs]}
    /\ lastGen' = IF g.caller = 0 THEN [ret EXCEPT !.n = g.id, !.user = g.user]
                  ELSE lastGen

GenFailure == [NoGenRet EXCEPT !.kind = "object"]

\* l.458-464 POST /recommendations/:userId from an HTTP client; l.284-286
\* registers the initial model if there is none
PostRecommendations ==
    \E u \in Users, limit \in Limits :
        /\ "engine" \in up
        /\ genSeq < MaxGens
        /\ genSeq' = genSeq + 1
        /\ gens' = gens \cup {NewGen(genSeq + 1, u, limit, 0)}
        /\ currentModel' = IF currentModel = NoModel THEN InitialModel(modelVersion)
                           ELSE currentModel
        /\ UNCHANGED <<schedVars, modelVersion, updates, updSeq, lastUpdate, lastGen,
                       storeVars, busVars, apiVars, trackVars, envVars>>

\* fault injection: an engine that sends every user down the collaborative path
NeverBelowMinInteractions(count, model) == FALSE

\* l.290 userBehavior.length < this.currentModel.minInteractions
BelowMinInteractions(count, model) == count < model.minInteractions.n

\* l.289-296: the behaviour rows arrive; a user below minInteractions gets
\* getPopularProducts, the others findSimilarUsers
GenBehavior ==
    \E g \in gens :
        /\ g.pc = "behavior"
        /\ gens' = (gens \ {g}) \cup
              {IF BelowMinInteractions(BehaviorLength(activities, g.user), currentModel)
               THEN [g EXCEPT !.pc = "coldPopular"]
               ELSE [g EXCEPT !.pc = "similar",
                              !.products = UserProducts(activities, g.user)]}
        /\ UNCHANGED <<schedVars, engineVars, storeVars, genSeq, lastGen, busVars, apiVars, trackVars, envVars>>

\* l.292: the popular products are returned as they are (an array)
GenColdPopular ==
    \E g \in gens :
        /\ g.pc = "coldPopular"
        /\ GenReturns(g, g, [NoGenRet EXCEPT !.kind = "array",
                                !.recs = getPopularProducts(activities, g.limit)])
        /\ UNCHANGED <<schedVars, engineVars, storeVars, genSeq, busVars, apiVars, trackVars, envVars>>

\* l.296-303, l.364-366: the similar users arrive
GenSimilar ==
    \E g \in gens :
        /\ g.pc = "similar"
        /\ LET similar == findSimilarUsers(activities, g.user, g.products)
           IN  gens' = (gens \ {g}) \cup
                  {IF similar = {} THEN [g EXCEPT !.pc = "popular"]
                   ELSE [g EXCEPT !.pc = "collab", !.similar = similar]}
        /\ UNCHANGED <<schedVars, engineVars, storeVars, genSeq, lastGen, busVars, apiVars, trackVars, envVars>>

\* l.299-306, l.421: the candidates arrive and saveRecommendations sends
\* its DELETE
GenCandidates ==
    \E g \in gens :
        /\ g.pc \in {"popular", "collab"}
        /\ gens' = (gens \ {g}) \cup
              {[g EXCEPT !.pc = "delete",
                         !.recs = IF g.pc = "popular"
                                  THEN getPopularProducts(activities, g.limit)
                                  ELSE collaborativeRecommendations(
                                           activities, g.user, g.similar, g.limit)]}
        /\ UNCHANGED <<schedVars, engineVars, storeVars, genSeq, lastGen, busVars, apiVars, trackVars, envVars>>

\* l.434: the model version an INSERT is sent with
InsertVersion(g, current) == current

\* l.309-315: saveRecommendations is over, the event is built and sent
genPublish(g) ==
    [g EXCEPT !.pc = "publish", !.evVer = modelVersion]

\* l.421-429: the DELETE is done; the first INSERT is sent
GenDelete ==
    \E g \in gens :
        /\ g.pc = "delete"
        /\ recommendations' = DeleteUser(recommendations, g.user)
        /\ gens' = (gens \ {g}) \cup
              {IF Len(g.recs) = 0 THEN genPublish(g)
               ELSE [g EXCEPT !.pc = "insert", !.i = 1,
                              !.ver = InsertVersion(g, modelVersion)]}
        /\ UNCHANGED <<schedVars, engineVars, activities, genSeq, lastGen, busVars, apiVars, trackVars, envVars>>

\* l.429-436: an INSERT is done (product_id is NOT NULL: a NULL product
\* is refused and the call fails); the next one is sent
GenInsert ==
    \E g \in gens :
        /\ g.pc = "insert"
        /\ IF g.recs[g.i].productId = NoProduct
           THEN /\ GenReturns(g, g, GenFailure)
                /\ UNCHANGED recommendations
           ELSE /\ recommendations' =
                       Append(recommendations, RecRow(g.user, g.recs[g.i], g.ver))
                /\ LET g1 == [g EXCEPT !.rowVers = @ \cup {g.ver}]
                   IN  gens' = (gens \ {g}) \cup
                          {IF g.i < Len(g.recs)
                           THEN [g1 EXCEPT !.i = g.i + 1,
                                           !.ver = InsertVersion(g, modelVersion)]
                           ELSE genPublish(g1)}
                /\ UNCHANGED lastGen
        /\ UNCHANGED <<schedVars, engineVars, activities, genSeq, busVars, apiVars, trackVars, envVars>>

\* l.315-323: the publish is done and the call returns, with
\* this.modelVersion as it is now
GenPublished ==
    \E g \in gens, transportOk \in BOOLEAN :
        /\ g.pc = "publish"
        /\ IF PublishThrows(Connected("engine"), GeneratedEvent(g.user, g.evVer), transportOk)
           THEN /\ GenReturns(g, g, GenFailure)
                /\ UNCHANGED channels
           ELSE /\ channels' = Published(channels, GeneratedEvent(g.user, g.evVer))
                /\ GenReturns(g, g, [NoGenRet EXCEPT
                        !.success = TRUE, !.kind = "object", !.recs = g.recs,
                        !.rowVers = g.rowVers, !.evVer = g.evVer,
                        !.retVer = modelVersion])
        /\ UNCHANGED <<schedVars, engineVars, storeVars, genSeq, apiVars, trackVars, envVars>>

\* l.324-327: a store query of the call is rejected
GenStoreFails ==
    \E g \in gens :
        /\ g.pc \in {"behavior", "coldPopular", "similar", "popular", "collab",
                     "delete", "insert"}
        /\ GenReturns(g, g, GenFailure)
        /\ UNCHANGED <<schedVars, engineVars, storeVars, genSeq, busVars, apiVars, trackVars, envVars>>

(***************************************************************************)
(* RecommendationAPI (model-training-service l.622-859)                    *)
(***************************************************************************)
\* l.625 cacheTimeout: five minutes, which is one tick of the clock
cacheTimeout == 1

\* l.632 the cache keys  recommendations:<userId>:<limit>
CacheKeys == Users \X Limits
NoEntry == [recs |-> <<>>, generatedAt |-> 0, timestamp |-> 0]

\* l.635 the entry is younger than cacheTimeout
Fresh(entry, clock) == clock - entry.timestamp < cacheTimeout

\* fault injection: an invalidation that deletes the first key it finds
invalidateOneKey(c, u) ==
    LET first == CHOOSE k \in CacheKeys :
                     k[1] = u /\ \A j \in CacheKeys : j[1] = u => k[2] <= j[2]
    IN  [k \in CacheKeys |-> IF k = first THEN NoEntry ELSE c[k]]

\* the characters of a user id, ':' being one of them
Chars(u) ==
    CASE u = "u1"   -> <<"u", "1">>
      [] u = "u2"   -> <<"u", "2">>
      [] u = "u3"   -> <<"u", "3">>
      [] u = "u1:1" -> <<"u", "1", ":", "1">>

\* l.632 `recommendations:${userId}:${limit}`
cacheKey(u, limit) ==
    <<"recommendations", ":">> \o Chars(u) \o <<":", ToString(limit)>>

\* l.772 key.startsWith(prefix)
startsWith(key, prefix) ==
    /\ Len(prefix) <= Len(key)
    /\ SubSeq(key, 1, Len(prefix)) = prefix

\* l.770-776 invalidateUserCache: every key that starts with
\* `recommendations:${userId}:` is deleted
invalidateUserCache(c, u) ==
    [k \in DOMAIN c |->
        IF startsWith(cacheKey(k[1], k[2]), <<"recommendations", ":">> \o Chars(u) \o <<":">>)
        THEN NoEntry ELSE c[k]]

\* l.948-955 the event types the API subscribes to
ApiSubscriptions == {"RecommendationGenerated", "UserViewedProduct",
                     "UserAddedToCart", "UserPurchasedProduct"}

\* fault injection: handlers that also drop the whole cache when a model
\* update is announced
ApiDeliveryClearing(c, event) ==
    IF event.type = "RecommendationModelUpdated"
    THEN [k \in CacheKeys |-> NoEntry]
    ELSE IF event.type \in ApiSubscriptions
    THEN invalidateUserCache(c, event.userId)
    ELSE c

\* l.846-858, l.948-955 the cache after the API's handlers saw a message:
\* the four subscribed types invalidate its user, any other type has no
\* handler
ApiDelivery(c, event) ==
    IF event.type \in ApiSubscriptions
    THEN invalidateUserCache(c, event.userId)
    ELSE c

NoGet == [n |-> 0, user |-> "", limit |-> 0, force |-> FALSE, success |-> FALSE,
          recs |-> <<>>, generatedAt |-> 0, hit |-> FALSE, engine |-> FALSE,
          stored |-> FALSE, inv |-> FALSE, madeAt |-> 0, error |-> ""]

NewCall(id, u, limit, force) ==
    [id |-> id, user |-> u, limit |-> limit, force |-> force, pc |-> "stored",
     recs |-> <<>>, generatedAt |-> 0, engine |-> FALSE, inv |-> FALSE,
     madeAt |-> now, rows |-> 0]

\* what a call returns, with the facts about the call kept for the properties
GetReturn(c, success, recs, generatedAt, hit, stored) ==
    [n |-> c.id, user |-> c.user, limit |-> c.limit, force |-> c.force,
     success |-> success, recs |-> recs, generatedAt |-> generatedAt,
     hit |-> hit, engine |-> c.engine, stored |-> stored, inv |-> c.inv,
     madeAt |-> c.madeAt, error |-> ""]

\* fault injection: a catch block that hands back what the call had fetched
FailureWithRows(c, stored, message) ==
    [GetReturn(c, FALSE, c.recs, 0, FALSE, stored) EXCEPT !.error = message]

\* l.683-691 the catch block: error.message, an empty list
GetFailure(c, stored, message) ==
    [GetReturn(c, FALSE, <<>>, 0, FALSE, stored) EXCEPT !.error = message]

\* l.695-718 getStoredRecommendations: the user's rows ORDER BY score DESC
\* LIMIT limit; rows of equal score come in any order
StoredLists(rows, u, limit) ==
    LET I == {i \in 1..Len(rows) : rows[i].user = u}
        n == Cardinality(I)
        orders == {s \in [1..n -> I] :
                      /\ \A i, j \in 1..n : i # j => s[i] # s[j]
                      /\ \A i, j \in 1..n :
                            i < j => ~RatLess(rows[s[i]].score, rows[s[j]].score)}
    IN  {[k \in 1..(IF limit < n THEN limit ELSE n) |->
             Rec(rows[s[k]].product, rows[s[k]].score, 800, "cached_recommendation")]
         : s \in orders}

\* l.661-674 the result is cached and the delivery event is being published;
\* rows is the length of the activity store when the list reached the call
cacheSet(c, recs, rows) ==
    /\ cache' = [cache EXCEPT ![<<c.user, c.limit>>] =
                    [recs |-> recs, generatedAt |-> now, timestamp |-> now]]
    /\ calls' = (calls \ {c}) \cup
                   {[c EXCEPT !.pc = "publish", !.recs = recs, !.generatedAt = now,
                              !.rows = rows]}

\* l.651 enrichRecommendations: an empty list needs no query (l.721)
withRecommendations(c, recs) ==
    IF Len(recs) = 0 THEN cacheSet(c, recs, Len(activities))
    ELSE /\ calls' = (calls \ {c}) \cup {[c EXCEPT !.pc = "enrich", !.recs = recs,
                                                   !.rows = Len(activities)]}
         /\ UNCHANGED cache

\* the users recommendations are requested for: one with a history and
\* similar users, one new
ApiUsers == {"u1", "u3"}

\* l.864-875 GET /recommendations/:userId and l.912-923 POST .../refresh;
\* l.632-639: a fresh entry is returned at once
GetRecommendations ==
    \E u \in ApiUsers, limit \in Limits, force \in BOOLEAN :
        LET c == NewCall(callSeq + 1, u, limit, force)
            entry == cache[<<u, limit>>]
        IN  /\ "api" \in up
            /\ callSeq < MaxCalls
            /\ Cardinality(calls) < MaxInFlight
            /\ callSeq' = callSeq + 1
            /\ IF ~force /\ entry # NoEntry /\ Fresh(entry, now)
               THEN /\ lastGet' = GetReturn(c, TRUE, entry.recs, entry.generatedAt,
                                            TRUE, FALSE)
                    /\ UNCHANGED calls
               ELSE /\ calls' = calls \cup {c}
                    /\ UNCHANGED lastGet
            /\ UNCHANGED <<schedVars, engineVars, storeVars, genVars, busVars, cache,
                           trackVars, envVars>>

\* l.642-649: the stored rows arrive; without rows, or on a forced
\* refresh, the engine is asked
ApiStored ==
    \E c \in calls :
        /\ c.pc = "stored"
        /\ \E stored \in StoredLists(recommendations, c.user, c.limit) :
              IF Len(stored) = 0 \/ c.force
              THEN /\ calls' = (calls \ {c}) \cup
                                  {[c EXCEPT !.pc = "engine", !.engine = TRUE]}
                   /\ gens' = gens \cup {NewGen(genSeq + 1, c.user, c.limit, c.id)}
                   /\ genSeq' = genSeq + 1
                   /\ currentModel' = IF currentModel = NoModel
                                      THEN InitialModel(modelVersion) ELSE currentModel
                   /\ UNCHANGED cache
              ELSE /\ withRecommendations(c, stored)
                   /\ UNCHANGED <<gens, genSeq, currentModel>>
        /\ UNCHANGED <<schedVars, modelVersion, updates, updSeq, lastUpdate, storeVars,
                       lastGen, busVars, callSeq, lastGet, trackVars, envVars>>

\* l.649-657: the engine's response arrives; anything without a true
\* success field is thrown
ApiEngineResponds ==
    \E c \in calls, g \in gens :
        /\ c.pc = "engine"
        /\ g.caller = c.id /\ g.pc = "done"
        /\ gens' = gens \ {g}
        /\ IF g.success
           THEN withRecommendations(c, g.recs) /\ UNCHANGED lastGet
           ELSE /\ calls' = calls \ {c}
                /\ lastGet' = GetFailure(c, FALSE,
                                  IF g.kind = "object" THEN "generation failed"
                                  ELSE "Failed to generate recommendations")
                /\ UNCHANGED cache
        /\ UNCHANGED <<schedVars, engineVars, storeVars, genSeq, lastGen, busVars,
                       callSeq, trackVars, envVars>>

\* l.659-674: the product rows arrive
ApiEnriched ==
    \E c \in calls :
        /\ c.pc = "enrich"
        /\ cacheSet(c, c.recs, c.rows)
        /\ UNCHANGED <<schedVars, engineVars, storeVars, genVars, busVars, callSeq,
                       lastGet, trackVars, envVars>>

\* l.669 the delivery event
DeliveryEvent(u) == EventOf("RecommendationGenerated", TRUE, u, 0)

\* l.674-676: the publish is done and the result is returned, or l.683
ApiPublished ==
    \E c \in calls, transportOk \in BOOLEAN :
        /\ c.pc = "publish"
        /\ calls' = calls \ {c}
        /\ IF PublishThrows(Connected("api"), DeliveryEvent(c.user), transportOk)
           THEN /\ lastGet' = GetFailure(c, TRUE, "publish failed")
                /\ UNCHANGED channels
           ELSE /\ lastGet' = GetReturn(c, TRUE, c.recs, c.generatedAt, FALSE, TRUE)
                /\ channels' = Published(channels, DeliveryEvent(c.user))
        /\ UNCHANGED <<schedVars, engineVars, storeVars, genVars, cache,
                       callSeq, trackVars, envVars>>

\* l.683: a store query of the call is rejected
ApiStoreFails ==
    \E c \in calls :
        /\ c.pc \in {"stored", "enrich"}
        /\ calls' = calls \ {c}
        /\ lastGet' = GetFailure(c, FALSE, "query failed")
        /\ UNCHANGED <<schedVars, engineVars, storeVars, genVars, busVars, cache,
                       callSeq, trackVars, envVars>>

\* an invalidation of u as the calls and the last return see it
MarkInvalidated(u) ==
    /\ calls' = {IF c.user = u THEN [c EXCEPT !.inv = TRUE] ELSE c : c \in calls}
    /\ lastGet' = IF lastGet.user = u THEN [lastGet EXCEPT !.inv = TRUE] ELSE lastGet

\* l.757 trackActivity invalidates the user it tracked
Invalidated(u) ==
    /\ cache' = invalidateUserCache(cache, u)
    /\ MarkInvalidated(u)

\* l.680-687 of the bus: a message is handed to the subscribers of its
\* type; l.846-858 the API's handlers invalidate the user's entries
Deliver ==
    \E type \in EventTypes :
        /\ channels[type] # <<>>
        /\ channels' = [channels EXCEPT ![type] = Tail(@)]
        /\ cache' = ApiDelivery(cache, Head(channels[type]))
        /\ IF type \in ApiSubscriptions
           THEN MarkInvalidated(Head(channels[type]).userId)
           ELSE UNCHANGED <<calls, lastGet>>
        /\ UNCHANGED <<schedVars, engineVars, storeVars, genVars, callSeq, trackVars,
                       envVars>>

(***************************************************************************)
(* UserActivityService.trackUserActivity (user-activity-service l.25-70)   *)
(***************************************************************************)
TrackKinds == Kinds \cup {"other"}
NoTrack == [n |-> 0, user |-> "", kind |-> "", success |-> FALSE]

\* l.44-58 the event of an activity kind
ActivityEventType(kind) ==
    CASE kind = "view"        -> "UserViewedProduct"
      [] kind = "add_to_cart" -> "UserAddedToCart"
      [] kind = "purchase"    -> "UserPurchasedProduct"
      [] kind = "search"      -> "UserSearchedProducts"
      [] OTHER                -> ""

ActivityEvent(kind, u) == EventOf(ActivityEventType(kind), TRUE, u, 0)

\* the users whose activities are tracked
TrackUsers == {"u1"}

\* the product ids an activity is tracked with: a search has none
TrackProducts(kind) == IF kind = "search" THEN {NoProduct} ELSE {"p3"}

\* l.134-137 POST /track of the service (via "client"), also reached from
\* the API's trackActivity (l.747-755, via "api")
TrackActivity ==
    \E u \in TrackUsers, kind \in TrackKinds, via \in {"client", "api"} :
        \E p \in TrackProducts(kind) :
            /\ "activity" \in up
            /\ via = "api" => "api" \in up
            /\ trackSeq < MaxTracks
            /\ trackSeq' = trackSeq + 1
            /\ tracks' = tracks \cup {[id |-> trackSeq + 1, user |-> u, kind |-> kind,
                                       product |-> p, via |-> via, pc |-> "insert"]}
            /\ UNCHANGED <<schedVars, engineVars, storeVars, genVars, busVars, apiVars,
                           lastTrack, envVars>>

\* the response reaches the caller; l.757 the API invalidates the user's
\* entries whatever the response says
TrackReturns(t, success) ==
    /\ tracks' = tracks \ {t}
    /\ lastTrack' = [n |-> t.id, user |-> t.user, kind |-> t.kind, success |-> success]
    /\ IF t.via = "api" THEN Invalidated(t.user)
       ELSE UNCHANGED <<cache, calls, lastGet>>

\* l.36-60: the row is inserted, then the event is chosen by kind
TrackInserted ==
    \E t \in tracks :
        /\ t.pc = "insert"
        /\ activities' = Append(activities, Activity(t.user, t.product, t.kind, "week"))
        /\ IF ActivityEventType(t.kind) = ""
           THEN TrackReturns(t, FALSE)
           ELSE /\ tracks' = (tracks \ {t}) \cup {[t EXCEPT !.pc = "publish"]}
                /\ UNCHANGED <<lastTrack, cache, calls, lastGet>>
        /\ UNCHANGED <<schedVars, engineVars, recommendations, genVars, busVars, callSeq,
                       trackSeq, envVars>>

\* l.66-69: the INSERT is rejected
TrackInsertFails ==
    \E t \in tracks :
        /\ t.pc = "insert"
        /\ TrackReturns(t, FALSE)
        /\ UNCHANGED <<schedVars, engineVars, storeVars, genVars, busVars, callSeq,
                       trackSeq, envVars>>

\* l.60-69: the publish is done, or fails
TrackPublished ==
    \E t \in tracks, transportOk \in BOOLEAN :
        /\ t.pc = "publish"
        /\ IF PublishThrows(Connected("activity"), ActivityEvent(t.kind, t.user), transportOk)
           THEN /\ TrackReturns(t, FALSE)
                /\ UNCHANGED channels
           ELSE /\ TrackReturns(t, TRUE)
                /\ channels' = Published(channels, ActivityEvent(t.kind, t.user))
        /\ UNCHANGED <<schedVars, engineVars, storeVars, genVars, callSeq,
                       trackSeq, envVars>>

\* the clock advances
Tick ==
    /\ now < MaxTime
    /\ now' = now + 1
    /\ UNCHANGED <<schedVars, engineVars, storeVars, genVars, busVars, apiVars, trackVars, up>>

(***************************************************************************)
(* The state after construction of every service object.                  *)
(***************************************************************************)
InitSched ==
    /\ isTraining = FALSE
    /\ currentTrainingJob = NoJob
    /\ trainingQueue = <<>>
    /\ modelVersions = {}
    /\ jobSeq = 0
    /\ runs = {}
    /\ trainEvents = {}
    /\ trained = {}
    /\ lastStart = NoRet

InitEngine ==
    /\ currentModel = NoModel
    /\ modelVersion = VersionStr(1, 0)
    /\ updates = {}
    /\ updSeq = 0
    /\ lastUpdate = NoUpdate

InitStore ==
    /\ activities = SeedActivities
    /\ recommendations = <<>>

InitGen ==
    /\ gens = {}
    /\ genSeq = 0
    /\ lastGen = NoGenRet

InitBus ==
    /\ channels = [type \in EventTypes |-> <<>>]

InitApi ==
    /\ cache = [k \in CacheKeys |-> NoEntry]
    /\ calls = {}
    /\ callSeq = 0
    /\ lastGet = NoGet

InitTrack ==
    /\ tracks = {}
    /\ trackSeq = 0
    /\ lastTrack = NoTrack

Init ==
    /\ InitSched
    /\ InitEngine
    /\ InitStore
    /\ InitGen
    /\ InitBus
    /\ InitApi
    /\ InitTrack
    /\ up = {}
    /\ now = 1

NextSched == TrainingStart \/ PostTrain \/ HourlyTimer \/ Tick

SpecSched == Init /\ [][NextSched]_vars

\* trainModelAsync entered (l.70) for a current job, both services started
InitRun ==
    \E config \in Configs \cup {HourlyConfig} :
        /\ isTraining = TRUE
        /\ currentTrainingJob = Job(1, config, "started")
        /\ trainingQueue = <<>>
        /\ modelVersions = {}
        /\ jobSeq = 1
        /\ runs = {NewRun(1, config)}
        /\ trainEvents = {}
        /\ trained = {}
        /\ lastStart = NoRet
        /\ currentModel = InitialModel(VersionStr(1, 0))
        /\ modelVersion = VersionStr(1, 0)
        /\ updates = {}
        /\ updSeq = 0
        /\ lastUpdate = NoUpdate
        /\ InitStore
        /\ InitGen
        /\ InitBus
        /\ InitApi
        /\ InitTrack
        /\ up = {"training", "engine"}
        /\ now = 1

NextRun ==
    \/ PostTrain \/ HourlyTimer \/ Tick
    \/ CollectTrainingData \/ SaveModel \/ EngineReceivesPush
    \/ DeployReturns \/ DeployFails \/ PublishCompleted
    \/ ModelUpdateReturns

SpecRun == InitRun /\ [][NextRun]_vars

\* the stores the trainer is run on: every user has viewed, purchased or
\* not touched each product within the week; two users on three products,
\* or three users on two, and the demo store
RowKinds == {"none", "view", "purchase"}

RECURSIVE TrainingStore(_, _, _, _)
TrainingStore(f, users, products, k) ==
    IF k > Len(users) * Len(products) THEN <<>>
    ELSE LET u == ((k - 1) \div Len(products)) + 1
             p == ((k - 1) % Len(products)) + 1
         IN  (IF f[<<u, p>>] = "none" THEN <<>>
              ELSE <<Activity(users[u], products[p], f[<<u, p>>], "week")>>)
             \o TrainingStore(f, users, products, k + 1)

StoresOf(users, products) ==
    {TrainingStore(f, users, products, 1) :
        f \in [(1..Len(users)) \X (1..Len(products)) -> RowKinds]}

TrainingStores ==
    StoresOf(<<"u1", "u2">>, <<"p1", "p2", "p3">>)
    \cup StoresOf(<<"u1", "u2", "u3">>, <<"p1", "p2">>)
    \cup {SeedActivities}

\* trainModelAsync entered (l.79) for a job on one of the stores, in a
\* process that has trained no model before, or one whose model it saved
\* (l.445) or one whose INSERT failed (l.437), at this clock reading
InitTrain ==
    \E config \in Configs \cup {HourlyConfig}, store \in TrainingStores,
       earlier \in {"none", "saved", "failed"} :
        LET n == IF earlier = "none" THEN 0 ELSE 1
        IN  /\ isTraining = TRUE
            /\ currentTrainingJob = Job(n + 1, config, "started")
            /\ trainingQueue = <<>>
            /\ trained = IF earlier = "none" THEN {}
                         ELSE {generateModelVersion({}, 1)}
            /\ modelVersions = IF earlier = "saved" THEN trained ELSE {}
            /\ jobSeq = n + 1
            /\ runs = {NewRun(n + 1, config)}
            /\ trainEvents = {}
            /\ lastStart = NoRet
            /\ currentModel = InitialModel(VersionStr(1, 0))
            /\ modelVersion = VersionStr(1, 0)
            /\ updates = {}
            /\ updSeq = 0
            /\ lastUpdate = NoUpdate
            /\ activities = store
            /\ recommendations = <<>>
            /\ InitGen
            /\ InitBus
            /\ InitApi
            /\ InitTrack
            /\ up = {"training", "engine"}
            /\ now = 1

NextTrain ==
    \/ CollectTrainingData \/ SaveModel \/ EngineReceivesPush
    \/ DeployReturns \/ DeployFails \/ PublishCompleted
    \/ ModelUpdateReturns \/ Tick

SpecTrain == InitTrain /\ [][NextTrain]_vars

NextEngine == EngineStart \/ PostModelUpdate \/ ModelUpdateReturns

SpecEngine == Init /\ [][NextEngine]_vars

\* the engine serving recommendation requests while models are pushed
NextGen ==
    \/ EngineStart \/ PostNewModel \/ ModelUpdateReturns
    \/ PostRecommendations \/ GenBehavior \/ GenColdPopular \/ GenSimilar
    \/ GenCandidates \/ GenDelete \/ GenInsert \/ GenPublished \/ GenStoreFails

SpecGen == Init /\ [][NextGen]_vars

\* the stores recommendations are generated on: the demo rows, alone or
\* with one more activity of the last week
GenStores ==
    {SeedActivities}
    \cup {Append(SeedActivities, Activity(u, Products[p], kind, "week")) :
             u \in Users, p \in 1..Len(Products), kind \in {"view", "purchase"}}

\* the started engine on one of the stores, every query succeeding
InitCollab ==
    /\ InitSched
    /\ currentModel = InitialModel(VersionStr(1, 0))
    /\ modelVersion = VersionStr(1, 0)
    /\ updates = {}
    /\ updSeq = 0
    /\ lastUpdate = NoUpdate
    /\ activities \in GenStores
    /\ recommendations = <<>>
    /\ InitGen
    /\ InitBus
    /\ InitApi
    /\ InitTrack
    /\ up = {"engine"}
    /\ now = 1

NextCollab ==
    \/ PostRecommendations \/ GenBehavior \/ GenColdPopular \/ GenSimilar
    \/ GenCandidates \/ GenDelete \/ GenInsert \/ GenPublished

SpecCollab == InitCollab /\ [][NextCollab]_vars

\* user ids as the API receives them in the URL: one of them contains ':'
KeyUsers == {"u1", "u2", "u1:1"}

\* the API with entries in its cache and one activity notification on its
\* way to it
InitKeys ==
    /\ InitSched
    /\ InitEngine
    /\ InitStore
    /\ InitGen
    /\ InitTrack
    /\ cache \in [KeyUsers \X Limits ->
                    {NoEntry, [recs |-> <<>>, generatedAt |-> 1, timestamp |-> 1]}]
    /\ calls = {}
    /\ callSeq = 0
    /\ lastGet = NoGet
    /\ \E u \in KeyUsers, kind \in {"view", "search"} :
          channels = [type \in EventTypes |->
                         IF type = ActivityEventType(kind)
                         THEN <<ActivityEvent(kind, u)>> ELSE <<>>]
    /\ up = {"api", "activity"}
    /\ now = 1

NextKeys == Deliver

SpecKeys == InitKeys /\ [][NextKeys]_vars

\* the engine, the User Activity service and the API, all started
InitServing ==
    /\ InitSched
    /\ currentModel = InitialModel(VersionStr(1, 0))
    /\ modelVersion = VersionStr(1, 0)
    /\ updates = {}
    /\ updSeq = 0
    /\ lastUpdate = NoUpdate
    /\ InitStore
    /\ InitGen
    /\ InitBus
    /\ InitApi
    /\ InitTrack
    /\ up = {"engine", "activity", "api"}
    /\ now = 1

NextApi ==
    \/ GetRecommendations \/ ApiStored \/ ApiEngineResponds \/ ApiEnriched
    \/ ApiPublished \/ ApiStoreFails \/ Deliver
    \/ GenBehavior \/ GenColdPopular \/ GenSimilar \/ GenCandidates \/ GenDelete
    \/ GenInsert \/ GenPublished
    \/ TrackActivity \/ TrackInserted \/ TrackInsertFails \/ TrackPublished
    \/ Tick

SpecApi == InitServing /\ [][NextApi]_vars

\* the API serving from its cache while models are pushed to the engine
NextPush ==
    \/ GetRecommendations \/ ApiStored \/ ApiEngineResponds \/ ApiEnriched
    \/ ApiPublished \/ Deliver
    \/ GenBehavior \/ GenColdPopular \/ GenSimilar \/ GenCandidates \/ GenDelete
    \/ GenInsert \/ GenPublished
    \/ PostTrainedModel \/ ModelUpdateReturns
    \/ Tick

SpecPush == InitServing /\ [][NextPush]_vars

(***************************************************************************)
(* Properties                                                              *)
(***************************************************************************)
\* the body the updateModel call of this step was made with
CallPayload ==
    IF lastUpdate'.n = updSeq' THEN lastUpdate'.d
    ELSE (CHOOSE u \in updates' : u.n = updSeq').d

\* this step is a call of updateModel
UpdateModelCalled == updSeq' = updSeq + 1

\* the call of this step was refused and changed nothing
UpdateRefused ==
    /\ currentModel' = currentModel
    /\ modelVersion' = modelVersion
    /\ lastUpdate'.n = updSeq'
    /\ ~lastUpdate'.success
    /\ lastUpdate'.error \in {"Invalid model weights", "Invalid model version"}

\* C1: at most one training run is in flight in every state, and a
\* startModelTraining call made while a job is being trained appends the
\* job to the queue, returns {success, status 'queued', jobId} and starts
\* no run.
C1_SingleFlight ==
    /\ [](Cardinality(runs) <= 1)
    /\ [][(isTraining /\ lastStart'.n # lastStart.n) =>
            /\ lastStart'.success
            /\ lastStart'.status = "queued"
            /\ lastStart'.jobId = jobSeq'
            /\ runs' = runs
            /\ isTraining'
            /\ currentTrainingJob' = currentTrainingJob
            /\ Len(trainingQueue') = Len(trainingQueue) + 1
            /\ SubSeq(trainingQueue', 1, Len(trainingQueue)) = trainingQueue
            /\ trainingQueue'[Len(trainingQueue')].id = lastStart'.jobId
            /\ trainingQueue'[Len(trainingQueue')].status = "queued"]_vars

\* a submission was queued behind a run that is still in flight
C1_Witness ==
    /\ runs # {}
    /\ isTraining
    /\ lastStart.status = "queued"
    /\ Len(trainingQueue) > 0
    /\ trainingQueue[Len(trainingQueue)].id = lastStart.jobId

C3_NoWeightsRejected ==
    [][(UpdateModelCalled /\ CallPayload.weights = Undefined) => UpdateRefused]_vars

\* C4: a generateRecommendations call that succeeded wrote all its rows
\* with one model version, the one its event and its response carry.
C4_OneVersionPerCall ==
    (lastGen.success /\ lastGen.kind = "object") =>
        /\ \A v \in lastGen.rowVers : v = lastGen.evVer
        /\ lastGen.evVer = lastGen.retVer

\* C5: in every state with a registered model modelVersion is
\* currentModel.version, and a step that changes the registered model
\* installs, together with its version, the whole candidate built from
\* the accepted request and nothing else.
C5_AtomicSwap ==
    /\ [](currentModel # NoModel => modelVersion = currentModel.version)
    /\ [][(currentModel # NoModel /\
           (currentModel' # currentModel \/ modelVersion' # modelVersion)) =>
            /\ UpdateModelCalled
            /\ \E u \in updates' \ updates :
                  /\ u.n = updSeq'
                  /\ currentModel' = NewModel(u.d, currentModel)
                  /\ modelVersion' = u.d.version]_vars

\* a model pushed by a client replaced the initial one
C5_Witness ==
    /\ currentModel # NoModel
    /\ currentModel.version = VersionStr(3, 0)
    /\ currentModel.weights = Obj("trained")
    /\ currentModel.minInteractions = Num(1)
    /\ lastUpdate.success
    /\ lastUpdate.version = VersionStr(3, 0)

\* C9: every return of startModelTraining to a caller is an
\* acknowledgment {success, status 'queued' or 'started', jobId}.
C9_AlwaysAcknowledged ==
    lastStart.n > 0 =>
        /\ lastStart.success
        /\ lastStart.status \in {"queued", "started"}
        /\ lastStart.jobId > 0

\* the version of a request body is missing, empty or not a string
BadVersion(v) == ~Truthy(v) \/ TypeOf(v) # "string"

\* C10: an updateModel call whose body has a missing, empty or non-string
\* version returns a validation failure and leaves currentModel and
\* modelVersion exactly as they were.
C10_BadVersionRejected ==
    [][(UpdateModelCalled /\ BadVersion(CallPayload.version)) => UpdateRefused]_vars

\* a body with a numeric version and usable weights was refused after an
\* earlier body had been installed
C10_Witness ==
    /\ lastUpdate.n > 0
    /\ lastUpdate.d.version = Num(2)
    /\ lastUpdate.d.weights = Obj("trained")
    /\ lastUpdate.error = "Invalid model version"
    /\ modelVersion = VersionStr(2, 0)
    /\ currentModel.version = VersionStr(2, 0)

\* the call of getRecommendations made in this step
MadeCall ==
    IF lastGet'.n = callSeq'
    THEN [user |-> lastGet'.user, limit |-> lastGet'.limit, force |-> lastGet'.force]
    ELSE LET c == CHOOSE x \in calls' : x.id = callSeq'
         IN  [user |-> c.user, limit |-> c.limit, force |-> c.force]

\* C6: a getRecommendations call that found no fresh cache entry, or was
\* forced, and returned a result had the Generator invoked and stored
\* what it returned.
C6_MissRegenerates ==
    (lastGet.n > 0 /\ lastGet.success /\ ~lastGet.hit) =>
        (lastGet.engine /\ lastGet.stored)

ActivityEventTypes == {"UserViewedProduct", "UserAddedToCart",
                       "UserPurchasedProduct", "UserSearchedProducts"}

\* C7: when the bus has delivered the notification of a recorded activity
\* of user u, of whatever kind, the API's cache holds no entry of u.
C7_ActivityInvalidates ==
    [][\A type \in ActivityEventTypes :
          (channels[type] # <<>> /\ channels'[type] = Tail(channels[type])) =>
              \A k \in CacheKeys :
                  k[1] = Head(channels[type]).userId => cache'[k] = NoEntry]_vars

\* C8: a non-forced getRecommendations call for (u, limit), made within
\* the TTL of an earlier non-forced call for (u, limit) that cached its
\* result, with no invalidation of u since that call was made, is
\* answered from the cache, without the Generator, with the list the
\* earlier call returned.
C8_RepeatServedFromCache ==
    [][(/\ callSeq' = callSeq + 1
        /\ lastGet.n > 0 /\ ~lastGet.force /\ lastGet.stored /\ ~lastGet.inv
        /\ MadeCall.user = lastGet.user /\ MadeCall.limit = lastGet.limit
        /\ ~MadeCall.force
        /\ now - lastGet.madeAt < cacheTimeout) =>
            /\ lastGet'.n = callSeq'
            /\ lastGet'.hit
            /\ lastGet'.recs = lastGet.recs
            /\ gens' = gens]_vars

\* the rows of the recommendations table that belong to user u, as
\* <<product, score>> pairs in the order they were inserted
RECURSIVE PersistedBatch(_, _)
PersistedBatch(rows, u) ==
    IF rows = <<>> THEN <<>>
    ELSE IF Head(rows).user = u
         THEN <<<<Head(rows).product, Head(rows).score>>>> \o PersistedBatch(Tail(rows), u)
         ELSE PersistedBatch(Tail(rows), u)

\* a returned batch as <<product, score>> pairs, scores as the table holds them
ReturnedBatch(recs) ==
    [i \in 1..Len(recs) |-> <<recs[i].productId, Decimal4(recs[i].score)>>]

\* C11: when a generateRecommendations call returns a batch for u (the
\* collaborative list, the popular list of a user without similar users,
\* or the popular list of a user below minInteractions), the rows stored
\* for u are exactly that batch.
C11_BatchPersisted ==
    [][(lastGen'.n # lastGen.n /\ (lastGen'.success \/ lastGen'.kind = "array")) =>
          PersistedBatch(recommendations', lastGen'.user) = ReturnedBatch(lastGen'.recs)]_vars

C13_ColdStartServed ==
    [][\A c \in calls, g \in gens \ gens' :
          (c.pc = "engine" /\ g.caller = c.id /\ g.pc = "done" /\ g.kind = "array") =>
              /\ \E c2 \in calls' : c2.id = c.id /\ c2.recs = g.recs
              /\ lastGet' = lastGet]_vars

\* C16: a non-forced getRecommendations call is answered from the cache
\* only with an entry younger than cacheTimeout, and a call that finds an
\* entry of that age or older has the engine generate again.
C16_ExpiredRegenerates ==
    /\ [](lastGet.hit => lastGet.madeAt - lastGet.generatedAt < cacheTimeout)
    /\ [][\A c \in calls \ calls' :
            (/\ c.pc = "stored" /\ ~c.force
             /\ cache[<<c.user, c.limit>>] # NoEntry
             /\ ~Fresh(cache[<<c.user, c.limit>>], c.madeAt)
             /\ \E c2 \in calls' : c2.id = c.id /\ c2.pc # "stored") =>
                genSeq' = genSeq + 1]_vars

\* C18: a forced getRecommendations call is never answered from the
\* cache; once the stored rows have arrived it asks the engine, and when
\* the engine has answered with a batch the call goes on to put that
\* batch in the cache under (u, limit).
C18_ForceRegenerates ==
    /\ [](lastGet.force => ~lastGet.hit)
    /\ [][/\ \A c \in calls \ calls' :
                (/\ c.force /\ c.pc = "stored"
                 /\ \E c2 \in calls' : c2.id = c.id /\ c2.pc # "stored") =>
                    genSeq' = genSeq + 1
          /\ \A c \in calls, g \in gens \ gens' :
                (/\ c.force /\ c.pc = "engine" /\ g.caller = c.id /\ g.pc = "done"
                 /\ (g.success \/ g.kind = "array")) =>
                    \E c2 \in calls' : c2.id = c.id /\ c2.recs = g.recs
          /\ \A c \in calls \ calls' :
                (/\ c.force /\ c.pc = "enrich"
                 /\ \E c2 \in calls' : c2.id = c.id /\ c2.pc = "publish") =>
                    /\ cache'[<<c.user, c.limit>>].recs = c.recs
                    /\ cache'[<<c.user, c.limit>>].timestamp = now]_vars

C15_TimerOnlyWhenIdle ==
    [][/\ \A i \in 1..Len(trainingQueue') : trainingQueue'[i].config # HourlyConfig
       /\ (currentTrainingJob'.config = HourlyConfig /\
           currentTrainingJob'.id # currentTrainingJob.id) =>
              /\ ~isTraining
              /\ runs = {}
              /\ trainingQueue = <<>>
              /\ trainingQueue' = <<>>
              /\ Cardinality(runs') <= 1]_vars

\* the timer submitted its job after the first run had ended
C15_Witness ==
    /\ currentTrainingJob.config = HourlyConfig
    /\ currentTrainingJob.id > 1
    /\ isTraining


\* the previous updateModel call is still visible (in flight, or the last
\* one that returned)
PrevKnown == updSeq >= 1 /\ (lastUpdate.n = updSeq \/ \E u \in updates : u.n = updSeq)

\* the body the previous updateModel call was made with
PrevPayload ==
    IF lastUpdate.n = updSeq THEN lastUpdate.d
    ELSE (CHOOSE u \in updates : u.n = updSeq).d

\* C20: the model push is idempotent: an updateModel call made with the
\* same body as the call before it leaves the current model and the model
\* version equal to their values after that first call.
C20_PushIdempotent ==
    [][(UpdateModelCalled /\ PrevKnown /\ CallPayload = PrevPayload)
          => /\ currentModel' = currentModel
             /\ modelVersion' = modelVersion]_vars

\* two accepted calls with the same body, the second just made
C20_Witness ==
    /\ updSeq = 2
    /\ \E a, b \in updates :
          /\ a.n = 1 /\ b.n = 2 /\ a.d = b.d
          /\ currentModel.version = b.d.version
          /\ currentModel.weights = Obj("trained")


\* the users whose entries this step invalidates: the user of a message
\* delivered to one of the API's handlers, and the user of a trackActivity
\* call of the API whose tracking response arrives
StepInvalidated ==
    {Head(channels[type]).userId :
        type \in {t \in ApiSubscriptions :
                     channels[t] # <<>> /\ channels'[t] = Tail(channels[t])}}
    \cup {t.user : t \in {x \in tracks : /\ x.via = "api"
                                         /\ x \notin tracks'
                                         /\ lastTrack'.n = x.id}}

\* C17: invalidateUserCache(u) removes every entry of u, whatever its
\* limit: after each step that invalidates u no key (u, limit) is present
\* in the cache.
C17_InvalidateRemovesAll ==
    [][\A u \in StepInvalidated :
          \A limit \in Limits : cache'[<<u, limit>>] = NoEntry]_vars

\* a list stored in the cache for u1 was invalidated afterwards and no
\* entry of u1 is left
C17_Witness ==
    /\ lastGet.user = "u1" /\ lastGet.success /\ lastGet.stored /\ lastGet.inv
    /\ lastGet.limit = 2
    /\ calls = {}
    /\ \A limit \in Limits : cache[<<"u1", limit>>] = NoEntry


\* this step is part of a model update: a call of updateModel, its return,
\* or the delivery of a RecommendationModelUpdated message to the API
ModelUpdateStep ==
    \/ updSeq' # updSeq
    \/ updates' # updates
    \/ /\ channels["RecommendationModelUpdated"] # <<>>
       /\ channels'["RecommendationModelUpdated"] =
              Tail(channels["RecommendationModelUpdated"])

\* C19: a model update (a call of updateModel on the engine, its return,
\* or the delivery of its RecommendationModelUpdated message) leaves the
\* API's cache as it was, and a fresh entry is returned to a non-forced
\* call whatever model is in force.
C19_UpdateKeepsCache ==
    /\ [][ModelUpdateStep => cache' = cache]_vars
    /\ [][(/\ callSeq' = callSeq + 1
           /\ ~MadeCall.force
           /\ cache[<<MadeCall.user, MadeCall.limit>>] # NoEntry
           /\ Fresh(cache[<<MadeCall.user, MadeCall.limit>>], now)) =>
               /\ lastGet'.n = callSeq'
               /\ lastGet'.hit
               /\ lastGet'.recs = cache[<<MadeCall.user, MadeCall.limit>>].recs
               /\ cache' = cache]_vars

\* the second call is answered from the cache with rows the engine saved
\* under v1.0 while v2.0 is in force and its announcement was delivered
C19_Witness ==
    /\ lastGet.n = 2 /\ lastGet.hit /\ lastGet.recs # <<>>
    /\ modelVersion = VersionStr(2, 0)
    /\ lastUpdate.success /\ updates = {}
    /\ channels["RecommendationModelUpdated"] = <<>>
    /\ \E i \in 1..Len(recommendations) : recommendations[i].user = lastGet.user
    /\ \A i \in 1..Len(recommendations) :
          recommendations[i].user = lastGet.user =>
              recommendations[i].version = VersionStr(1, 0)


\* C21: getRecommendations never raises: every call that ends hands back
\* a result, and a result that is not a success (the store query, the
\* engine call or the publish failed) carries an error message and an
\* empty recommendation list.
C21_FailureIsExplicit ==
    [][\A c \in calls :
          (\A x \in calls' : x.id # c.id) =>
              /\ lastGet'.n = c.id
              /\ lastGet'.user = c.user
              /\ \/ lastGet'.success /\ lastGet'.error = ""
                 \/ /\ ~lastGet'.success
                    /\ lastGet'.error # ""
                    /\ lastGet'.recs = <<>>]_vars

\* the publish of the delivery event failed after a non-empty list was
\* cached: the call returned a failure with an empty list
C21_Witness ==
    /\ lastGet.n > 0 /\ ~lastGet.success
    /\ lastGet.error = "publish failed" /\ lastGet.recs = <<>>
    /\ cache[<<lastGet.user, lastGet.limit>>].recs # <<>>


\* the runs whose model has been trained
TrainedRuns == {r \in runs : r.pc # "collect"}

\* the users that interacted with both products within the window: the
\* times the pair co-occurs across users
CoUsers(rows, a, b) ==
    {u \in Users : /\ \E i \in 1..Len(rows) : rows[i].user = u /\ rows[i].product = a
                   /\ \E i \in 1..Len(rows) : rows[i].user = u /\ rows[i].product = b}

ProductPairs ==
    {pr \in (1..Len(Products)) \X (1..Len(Products)) : pr[1] < pr[2]}

\* C22: a product pair that co-occurs exactly 2 times across users is
\* absent from the similarity map of a trained model, and a pair that
\* co-occurs 3 times is present in it.
C22_Threshold ==
    \A r \in TrainedRuns, pr \in ProductPairs :
        LET a == Products[pr[1]]
            b == Products[pr[2]]
            n == Cardinality(CoUsers(TrainingRows(activities), a, b))
        IN  /\ n = 2 => PairKey(a, b) \notin DOMAIN r.similarity
            /\ n = 3 => PairKey(a, b) \in DOMAIN r.similarity

\* C23: for each retained pair (count above 2) the strength stored for it
\* is count / max(R, 1), R being the number of distinct retained pairs.
C23_NormalisedByRetained ==
    \A r \in TrainedRuns :
        LET co == coOccurrences(TrainingRows(activities))
            R  == Cardinality({k \in DOMAIN co : co[k] > 2})
        IN  \A k \in DOMAIN co :
                co[k] > 2 =>
                    /\ SimilarityKey(k) \in DOMAIN r.similarity
                    /\ r.similarity[SimilarityKey(k)] = Rat(co[k], IF R > 1 THEN R ELSE 1)

\* C24: every strength stored in the similarity map of a trained model
\* lies in [0, 1].
C24_StrengthInUnitInterval ==
    \A r \in TrainedRuns :
        \A k \in DOMAIN r.similarity :
            /\ 0 <= r.similarity[k].num
            /\ r.similarity[k].num <= r.similarity[k].den


\* the run of job r is at stage pc after this step, its model invalid
RunAt(r, pc) == \E x \in runs' : x.jobId = r.jobId /\ x.pc = pc /\ ~x.valid

\* the run of job r ended in the catch block because an I/O of the given
\* kinds failed (or, for "TypeError", its config was null)
RunFailed(r, messages) ==
    /\ \A x \in runs' : x.jobId # r.jobId
    /\ currentTrainingJob'.status = "failed"
    /\ currentTrainingJob'.error \in messages

\* C25: a rejection by validateModel does not block publication: a run
\* whose model is invalid (precision not above 0.1) leaves a stage only
\* for the next one, unless an I/O of that stage fails: the model is
\* saved, pushed to the engine (a failed push is swallowed), the job is
\* marked completed and the model-updated notification is published.
C25_RejectionDoesNotBlock ==
    [][\A r \in runs :
          r \notin runs' =>
              CASE r.pc = "collect" ->
                       ~validateTrained(TrainingRows(activities)) =>
                           \/ RunAt(r, "save")
                           \/ RunFailed(r, {"query failed", "TypeError"})
                [] r.pc = "save" /\ ~r.valid ->
                       \/ RunAt(r, "deploy") /\ r.version \in modelVersions'
                       \/ RunFailed(r, {"insert failed"})
                [] r.pc = "deploy" /\ ~r.valid ->
                       \/ RunAt(r, "pushed") /\ updSeq' = updSeq + 1
                       \/ RunAt(r, "publish") /\ currentTrainingJob'.status = "completed"
                [] r.pc = "pushed" /\ ~r.valid ->
                       RunAt(r, "publish") /\ currentTrainingJob'.status = "completed"
                [] r.pc = "publish" /\ ~r.valid ->
                       \/ /\ CompleteEvent(r.version) \in trainEvents'
                          /\ \A x \in runs' : x.jobId # r.jobId
                       \/ RunFailed(r, {"publish failed"})
                [] OTHER -> TRUE]_vars

\* the run on a store whose model is invalid has saved its model, the
\* engine serves it and the notification of the run is out
C25_Witness ==
    /\ ~validateTrained(TrainingRows(activities))
    /\ runs = {}
    /\ \E v \in modelVersions :
          /\ v \in trained
          /\ currentModel.version = v
          /\ CompleteEvent(v) \in trainEvents


C27_UnkeyedWeightsRejected ==
    [][(UpdateModelCalled /\ CallPayload.weights = Obj("unkeyed")) => UpdateRefused]_vars


\* views + 2 * carts + 5 * purchases of product p over the rows of the
\* trailing 7 days
WeekCount(acts, p, kind) ==
    Cardinality({i \in 1..Len(acts) : /\ acts[i].age = "week"
                                      /\ acts[i].product = p
                                      /\ acts[i].kind = kind})

PopularityScore(acts, p) ==
    WeekCount(acts, p, "view") + 2 * WeekCount(acts, p, "add_to_cart")
        + 5 * WeekCount(acts, p, "purchase")

\* C28: the popularity fallback lists products interacted with in the
\* trailing 7 days in descending order of views + 2*carts + 5*purchases,
\* each with confidence 0.5 and reason popular_products.
C28_PopularRanking ==
    [][\A g \in gens, g2 \in gens' :
          (g.pc = "coldPopular" /\ g2.id = g.id /\ g2.pc = "done" /\ g2.kind = "array") =>
              /\ \A i \in 1..Len(g2.recs) :
                    /\ g2.recs[i].confidence = 500
                    /\ g2.recs[i].reason = "popular_products"
                    /\ \E k \in 1..Len(activities) :
                          /\ activities[k].age = "week"
                          /\ activities[k].product = g2.recs[i].productId
              /\ \A i, j \in 1..Len(g2.recs) :
                    i < j => PopularityScore(activities, g2.recs[i].productId)
                                >= PopularityScore(activities, g2.recs[j].productId)]_vars


\* the distinct products of u's behaviour that v interacted with in the
\* last 30 days
SharedProducts(acts, u, v) ==
    {q \in UserProducts(acts, u) \ {NoProduct} :
        \E i \in 1..Len(acts) : /\ acts[i].user = v
                                 /\ acts[i].product = q
                                 /\ acts[i].age \in {"week", "month"}}

\* C29: every user findSimilarUsers returns differs from the target user
\* and shares at least 2 distinct products with it within 30 days, at most
\* 50 users are returned, and the collaborative recommendations hold no
\* product the target user already touched.
C29_SimilarUsers ==
    [][\A g \in gens, g2 \in gens' :
          g2.id = g.id =>
              /\ (g.pc = "similar" /\ g2.pc = "collab") =>
                    /\ Cardinality(g2.similar) <= 50
                    /\ \A v \in g2.similar :
                          /\ v # g.user
                          /\ Cardinality(SharedProducts(activities, g.user, v)) >= 2
              /\ (g.pc = "collab" /\ g2.pc = "delete") =>
                    \A i \in 1..Len(g2.recs) :
                        g2.recs[i].productId \notin UserProducts(activities, g.user)]_vars

\* the batch generateRecommendations saves for u with a limit, on a store
\* and model that do not change: nothing below minInteractions, the
\* popular list without similar users, else the collaborative list
SavedBatch(u, limit) ==
    LET similar == findSimilarUsers(activities, u, UserProducts(activities, u))
    IN  IF BelowMinInteractions(BehaviorLength(activities, u), currentModel) THEN <<>>
        ELSE IF similar = {} THEN getPopularProducts(activities, limit)
        ELSE collaborativeRecommendations(activities, u, similar, limit)

\* C30: once every generateRecommendations call for a user has completed,
\* the rows persisted for that user are exactly the batch of one of those
\* calls, never the union or a mix of two batches.
C30_OneBatchPersisted ==
    \A u \in Users :
        (/\ \A g \in gens : g.user # u
         /\ PersistedBatch(recommendations, u) # <<>>) =>
            \E limit \in Limits :
                PersistedBatch(recommendations, u) = ReturnedBatch(SavedBatch(u, limit))

\* the last tracked activity is one of u whose notification the API
\* subscribes to, and that notification has been published and delivered
ActivityHandled(u) ==
    /\ tracks = {}
    /\ lastTrack.user = u
    /\ lastTrack.success
    /\ ActivityEventType(lastTrack.kind) \in ApiSubscriptions
    /\ channels[ActivityEventType(lastTrack.kind)] = <<>>

\* C31: once the notification of an activity of u has been handled, a
\* getRecommendations call for u whose list was obtained before the
\* activity row was stored has left no entry in the cache.
C31_NoStaleEntryAfterActivity ==
    \A c \in calls :
        (/\ c.pc = "publish"
         /\ c.rows < Len(activities)
         /\ ActivityHandled(c.user)) =>
            cache[<<c.user, c.limit>>] = NoEntry

\* C32: a startModelTraining call that returns success:false leaves the
\* scheduler as it was before the call, that is idle: isTraining false and
\* currentTrainingJob null.
C32_FailedStartLeavesIdle ==
    [][(lastStart'.n # lastStart.n /\ ~lastStart'.success) =>
          /\ isTraining' = isTraining
          /\ currentTrainingJob' = currentTrainingJob
          /\ ~isTraining'
          /\ currentTrainingJob' = NoJob]_vars

\* C34: an updateModel call that returns success:false leaves currentModel
\* and modelVersion as they were before the call: in the step of a call
\* that fails before its publish starts, and, for the first call made to
\* the started engine, also when the failure is the publish itself.
C34_FailedUpdateKeepsModel ==
    /\ [][(updSeq' # updSeq /\ lastUpdate'.n = updSeq' /\ ~lastUpdate'.success) =>
             /\ currentModel' = currentModel
             /\ modelVersion' = modelVersion]_vars
    /\ []((updSeq = 1 /\ lastUpdate.n = 1 /\ ~lastUpdate.success) =>
             /\ currentModel = InitialModel(VersionStr(1, 0))
             /\ modelVersion = VersionStr(1, 0))

\* C33: the entry stored by a successful, non-forced getRecommendations
\* call is not removed by the delivery of a RecommendationGenerated
\* notification published for that same request (the only request made so
\* far), be it the API's own or the engine's.
C33_OwnNotificationKeepsEntry ==
    [][(/\ callSeq = 1 /\ lastGet.n = 1
        /\ lastGet.success /\ ~lastGet.force /\ ~lastGet.hit
        /\ cache[<<lastGet.user, lastGet.limit>>] # NoEntry
        /\ channels["RecommendationGenerated"] # <<>>
        /\ channels'["RecommendationGenerated"] = Tail(channels["RecommendationGenerated"]))
          => cache'[<<lastGet.user, lastGet.limit>>] = cache[<<lastGet.user, lastGet.limit>>]]_vars

\* the engine answered the push of run r with success: true
Deployed(r) ==
    /\ r.pc \in {"pushed", "publish"}
    /\ \A u \in updates : u.caller # r.jobId
    /\ lastUpdate.n # 0
    /\ lastUpdate.d.version = r.version
    /\ lastUpdate.success

C38_OneEntryPerPair ==
    \A r \in TrainedRuns :
        LET co == coOccurrences(TrainingRows(activities))
        IN  Cardinality(DOMAIN r.similarity) =
                Cardinality({k \in DOMAIN co : co[k] > 2})

\* C39: invalidateUserCache(u), run for an activity notification of u,
\* leaves unchanged every cache entry that belongs to a different user,
\* also when a user id contains ':'.
C39_OtherUsersKept ==
    [][\A type \in ApiSubscriptions :
          (/\ channels[type] # <<>>
           /\ channels' = [channels EXCEPT ![type] = Tail(@)]) =>
              \A k \in DOMAIN cache :
                  k[1] # Head(channels[type]).userId => cache'[k] = cache[k]]_vars

\* C40: a trackUserActivity call with an activity kind outside view,
\* add_to_cart, purchase and search returns a failure, and the step that
\* completes it appends no row to the activity store and publishes no
\* notification.
C40_UnknownKindLeavesNoRow ==
    [][\A t \in tracks :
          (t.kind \notin Kinds /\ t.pc = "insert" /\ t \notin tracks') =>
              /\ lastTrack'.n = t.id
              /\ ~lastTrack'.success
              /\ activities' = activities
              /\ channels' = channels]_vars

====
